---- MODULE Spec2Model ----
\* ArrayOf<T, Alloc> (array_of.hpp) and CollectionOf<T, Alloc> (collection_of.hpp):
\* two fixed-length containers over storage obtained from an allocator.
\* The model keeps the allocator's regions in `heap`, the members of every
\* container object (length_, ptr_, d_), the allocator and element events of
\* the CollectionOf object, and the last call with its result.
EXTENDS Integers, Sequences, FiniteSets, TLC

\* ---------------------------------------------------------------- bounds
MaxLen == 2
MaxRegions == 2
MaxConstructs == 2

\* ------------------------------------------------------------- constants
\* T* ptr_{}: the null pointer; regions are numbered from 1.
NULL == 0
\* value_type{}: the default value of T.
DefaultValue == 0
\* allocator_type{} / std::allocator<T>(): the default-constructed allocator.
DefaultAlloc == "A0"

\* The values of T: the default value and another one.
Vals == {0, 1}
\* A slot that holds no live object (raw storage, or a destroyed element).
RAW == Cardinality(Vals)
Allocs == {"A0", "A1"}
Arrs == {"a", "b"}
Colls == {"c"}
Ids == Arrs \cup Colls
Lens == 0..MaxLen

VARIABLES live, length_, ptr_, d_, heap, events, constructs, last
vars == <<live, length_, ptr_, d_, heap, events, constructs, last>>

\* ------------------------------------------------------------- allocator
\* The storage: MaxRegions places a region can be allocated at, numbered from
\* 1. A region records the allocator it came from, its slot count, its slots,
\* the deallocate calls that did not match its allocate call, and whether the
\* constructor that allocated it completed.
FreeSlot ==
  [used |-> FALSE, alloc |-> DefaultAlloc, n |-> 0, cells |-> <<>>,
   frees |-> <<>>, built |-> FALSE]
Region(alloc, n) ==
  [used |-> TRUE, alloc |-> alloc, n |-> n, cells |-> [i \in 1..n |-> RAW],
   frees |-> <<>>, built |-> FALSE]
Ptrs == 1..MaxRegions
FreePtrs(h) == {p \in Ptrs : ~h[p].used}
Fresh(h) == CHOOSE p \in FreePtrs(h) : \A q \in FreePtrs(h) : p <= q
\* allocate(n): a fresh region of n raw slots. For n = 0 the returned pointer
\* is unspecified: it may be null or a unique pointer.
AllocateResults(h, n) ==
  IF n = 0 THEN {NULL, Fresh(h)} ELSE {Fresh(h)}
HeapAfterAllocate(h, alloc, n, p) ==
  IF p = NULL THEN h ELSE [h EXCEPT ![p] = Region(alloc, n)]
\* alloc.deallocate(ptr, n): the first call with the allocator and the count of
\* the allocate call returns the region to the storage; any other call is
\* recorded on the region, whose contents are lost.
Deallocate(h, alloc, p, n) ==
  IF p = NULL THEN h
  ELSE IF h[p].used /\ h[p].frees = <<>> /\ h[p].alloc = alloc /\ h[p].n = n
  THEN [h EXCEPT ![p] = FreeSlot]
  ELSE [h EXCEPT ![p].used = TRUE,
                 ![p].frees = Append(@, [alloc |-> alloc, n |-> n]),
                 ![p].cells = [i \in 1..Len(@) |-> RAW]]

\* ArrayOf::Deleter::operator(): if (ptr) alloc.deallocate(ptr, n).
ArrayDeleter(h, alloc, p, n) ==
  IF p # NULL THEN Deallocate(h, alloc, p, n) ELSE h

\* A fill that stops one slot short.
UninitializedFillNShort(cells, n, v, k) ==
  [i \in 1..Len(cells) |->
     IF k = n THEN (IF i < n THEN v ELSE cells[i])
     ELSE (IF i <= k THEN RAW ELSE cells[i])]
\* std::uninitialized_fill_n(ptr_, n, v), where the copy number k throws
\* (k = n: none does). On a throw the k elements already constructed are
\* destroyed and the exception is rethrown; slot k and the later slots are
\* left as they were.
UninitializedFillN(cells, n, v, k) ==
  [i \in 1..Len(cells) |->
     IF k = n THEN (IF i <= n THEN v ELSE cells[i])
     ELSE (IF i <= k THEN RAW ELSE cells[i])]

\* The last call: its name, the object called, the other object involved, the
\* length or index given, the value given and how it ended.
Call(op, id, other, n, v, res) ==
  [op |-> op, id |-> id, other |-> other, n |-> n, v |-> v, res |-> res,
   slot |-> <<>>]

Init ==
  /\ live = [x \in Ids |-> FALSE]
  /\ length_ = [x \in Ids |-> 0]
  /\ ptr_ = [x \in Ids |-> NULL]
  /\ d_ = [x \in Ids |-> DefaultAlloc]
  /\ heap = [p \in Ptrs |-> FreeSlot]
  /\ events = <<>>
  /\ constructs = <<>>
  /\ last = Call("none", "a", "a", 0, 0, "ok")

\* ----------------------------------------------------- ArrayOf: lifetime
\* ArrayOf(length, v, alloc): length_(length), d_(alloc), allocate, fill.
\* When the fill throws the constructor is left by the exception: no object
\* exists, its destructor never runs and nothing deallocates the storage.
ArrayOfCtor(id, length, v, alloc, k, form, req) ==
  /\ id \in Arrs /\ ~live[id]
  /\ FreePtrs(heap) # {}
  /\ \E p \in AllocateResults(heap, length) :
       LET h1 == HeapAfterAllocate(heap, alloc, length, p)
           h2 == IF p = NULL THEN h1
                 ELSE [h1 EXCEPT ![p].cells = UninitializedFillN(@, length, v, k),
                                 ![p].built = (k = length)]
       IN /\ heap' = h2
          /\ IF k = length
             THEN /\ live' = [live EXCEPT ![id] = TRUE]
                  /\ length_' = [length_ EXCEPT ![id] = length]
                  /\ ptr_' = [ptr_ EXCEPT ![id] = p]
                  /\ d_' = [d_ EXCEPT ![id] = alloc]
             ELSE UNCHANGED <<live, length_, ptr_, d_>>
          /\ last' = Call(form, id, id, req, v,
                          IF k = length THEN "ok" ELSE "throw")
  /\ UNCHANGED <<events, constructs>>

\* ArrayOf(length) and ArrayOf(length, v, alloc): the three-parameter
\* constructor, its defaults being value_type{} and allocator_type{}.
CtorLength(id) ==
  \E length \in Lens, k \in Lens :
    /\ k <= length
    /\ ArrayOfCtor(id, length, DefaultValue, DefaultAlloc, k, "ctor(length)", length)
CtorLengthValueAlloc(id) ==
  \E length \in Lens, v \in Vals, alloc \in Allocs, k \in Lens :
    /\ k <= length
    /\ ArrayOfCtor(id, length, v, alloc, k, "ctor(length,v,alloc)", length)
\* ArrayOf(length, alloc) : ArrayOf(length_, value_type{}, alloc): the
\* delegation passes the member length_, which nothing has initialized yet,
\* so the delegated length is an indeterminate value.
CtorLengthAlloc(id) ==
  \E length \in Lens, indeterminate \in Lens, alloc \in Allocs, k \in Lens :
    /\ k <= indeterminate
    /\ ArrayOfCtor(id, indeterminate, DefaultValue, alloc, k, "ctor(length,alloc)", length)
\* ArrayOf(length, v) : ArrayOf(length, v, std::allocator<T>()).
CtorLengthValue(id) ==
  \E length \in Lens, v \in Vals, k \in Lens :
    /\ k <= length
    /\ ArrayOfCtor(id, length, v, DefaultAlloc, k, "ctor(length,v)", length)

\* ~ArrayOf(): d_(ptr_, length_). The members of a dead object are reset so
\* that the name can be constructed again.
ArrayOfDtor(id) ==
  /\ id \in Arrs /\ live[id]
  /\ heap' = ArrayDeleter(heap, d_[id], ptr_[id], length_[id])
  /\ live' = [live EXCEPT ![id] = FALSE]
  /\ length_' = [length_ EXCEPT ![id] = 0]
  /\ ptr_' = [ptr_ EXCEPT ![id] = NULL]
  /\ d_' = [d_ EXCEPT ![id] = DefaultAlloc]
  /\ last' = Call("dtor", id, id, 0, 0, "ok")
  /\ UNCHANGED <<events, constructs>>

\* A move constructor that copies the members and leaves the source as it was.
MoveCtorShallow(dst, src) ==
  /\ dst \in Arrs /\ src \in Arrs /\ dst # src
  /\ ~live[dst] /\ live[src]
  /\ live' = [live EXCEPT ![dst] = TRUE]
  /\ length_' = [length_ EXCEPT ![dst] = length_[src]]
  /\ ptr_' = [ptr_ EXCEPT ![dst] = ptr_[src]]
  /\ d_' = [d_ EXCEPT ![dst] = d_[src]]
  /\ last' = Call("move-ctor", dst, src, 0, 0, "ok")
  /\ UNCHANGED <<heap, events, constructs>>
\* ArrayOf(ArrayOf&& other): the members start as length_{} and ptr_{}, are
\* swapped with other's, and d_ takes a copy of other's allocator.
MoveCtor(dst, src) ==
  /\ dst \in Arrs /\ src \in Arrs /\ dst # src
  /\ ~live[dst] /\ live[src]
  /\ live' = [live EXCEPT ![dst] = TRUE]
  /\ length_' = [length_ EXCEPT ![dst] = length_[src], ![src] = 0]
  /\ ptr_' = [ptr_ EXCEPT ![dst] = ptr_[src], ![src] = NULL]
  /\ d_' = [d_ EXCEPT ![dst] = d_[src]]
  /\ last' = Call("move-ctor", dst, src, 0, 0, "ok")
  /\ UNCHANGED <<heap, events, constructs>>

\* operator=(ArrayOf&& other): swap length_ and ptr_ with other's, then
\* d_ = Deleter(other.d_.alloc); other keeps its own d_.
MoveAssign(dst, src) ==
  /\ dst \in Arrs /\ src \in Arrs
  /\ live[dst] /\ live[src]
  /\ length_' = [length_ EXCEPT ![dst] = length_[src], ![src] = length_[dst]]
  /\ ptr_' = [ptr_ EXCEPT ![dst] = ptr_[src], ![src] = ptr_[dst]]
  /\ d_' = [d_ EXCEPT ![dst] = d_[src]]
  /\ last' = Call("move-assign", dst, src, 0, 0, "ok")
  /\ UNCHANGED <<live, heap, events, constructs>>

\* ------------------------------------------------------- element access
\* A range check that lets n = length_ through.
RangeCheckLoose(id, n) == n <= length_[id]
\* RangeCheck(n): throws std::out_of_range when n >= length_; true when it
\* returns.
RangeCheck(id, n) == n < length_[id]
\* operator[](n): ptr_[n], the slot n of the region ptr_ points to.
Subscript(id, n) == <<ptr_[id], n>>
\* at(n): RangeCheck(n); return ptr_[n].
At(id, n) ==
  /\ live[id]
  /\ last' = IF RangeCheck(id, n)
             THEN [Call("at", id, id, n, 0, "ok") EXCEPT !.slot = <<ptr_[id], n>>]
             ELSE Call("at", id, id, n, 0, "OutOfRange")
  /\ UNCHANGED <<live, length_, ptr_, d_, heap, events, constructs>>
\* a[n] = v through the reference operator[] returns, for n within the array.
Assign(id, n, v) ==
  /\ id \in Arrs /\ live[id]
  /\ n < length_[id]
  /\ heap' = [heap EXCEPT ![ptr_[id]].cells[n + 1] = v]
  /\ last' = Call("assign", id, id, 0, 0, "ok")
  /\ UNCHANGED <<live, length_, ptr_, d_, events, constructs>>

\* begin() .. end(): the slots ptr_ .. ptr_ + length_, in order.
Iterate(h, p, n) == [i \in 1..n |-> h[p].cells[i]]

\* fill(v): std::uninitialized_fill_n(ptr_, length_, v) over the slots, which
\* already hold elements; copy number k throws (k = length_: none does).
Fill(id, v, k) ==
  /\ id \in Arrs /\ live[id]
  /\ k <= length_[id]
  /\ heap' = IF ptr_[id] = NULL THEN heap
             ELSE [heap EXCEPT ![ptr_[id]].cells =
                                  UninitializedFillN(@, length_[id], v, k)]
  /\ last' = Call("fill", id, id, 0, v, IF k = length_[id] THEN "ok" ELSE "throw")
  /\ UNCHANGED <<live, length_, ptr_, d_, events, constructs>>

\* An exchange that only copies the second range into the first.
SwapRangesOneWay(h, p, n, q) ==
  IF n = 0 THEN h
  ELSE [h EXCEPT ![p].cells = [i \in 1..Len(h[p].cells) |->
                                 IF i <= n THEN h[q].cells[i] ELSE h[p].cells[i]]]
\* std::swap_ranges(begin(), end(), other.begin()): exchanges slot i of the two
\* regions for every i < length_.
SwapRanges(h, p, n, q) ==
  IF n = 0 THEN h
  ELSE [h EXCEPT ![p].cells = [i \in 1..Len(h[p].cells) |->
                                 IF i <= n THEN h[q].cells[i] ELSE h[p].cells[i]],
                 ![q].cells = [i \in 1..Len(h[q].cells) |->
                                 IF i <= n THEN h[p].cells[i] ELSE h[q].cells[i]]]
\* swap(ArrayOf&& other), for another array that has at least length_ slots
\* (a shorter one is written past its end).
Swap(id, other) ==
  /\ id \in Arrs /\ other \in Arrs /\ id # other
  /\ live[id] /\ live[other]
  /\ length_[id] <= length_[other]
  /\ heap' = SwapRanges(heap, ptr_[id], length_[id], ptr_[other])
  /\ last' = Call("swap", id, other, 0, 0, "ok")
  /\ UNCHANGED <<live, length_, ptr_, d_, events, constructs>>

\* ------------------------------------------------------------- equality
\* What reading slot i (from 0) through p can yield: the element there, or an
\* indeterminate value when the slot holds no object or lies past the region.
CellReads(h, p, i) ==
  IF p # NULL /\ i < h[p].n /\ h[p].cells[i + 1] # RAW
  THEN {h[p].cells[i + 1]}
  ELSE Vals
\* std::equal(lhs.begin(), lhs.end(), rhs.begin()): compares lhs's length_
\* slots with the slots of rhs at the same offsets; rhs's length is not read.
RECURSIVE StdEqual(_, _, _, _, _)
StdEqual(h, pl, nl, pr, i) ==
  IF i = nl THEN {TRUE}
  ELSE LET L == CellReads(h, pl, i)
           R == CellReads(h, pr, i)
       IN (IF \E x \in L, y \in R : x # y THEN {FALSE} ELSE {})
          \cup (IF \E x \in L, y \in R : x = y
                THEN StdEqual(h, pl, nl, pr, i + 1) ELSE {})
\* operator==(lhs, rhs)
OperatorEq(l, r) == StdEqual(heap, ptr_[l], length_[l], ptr_[r], 0)
\* operator!=(lhs, rhs): !(lhs == rhs)
OperatorNe(l, r) == {~e : e \in OperatorEq(l, r)}
SameType(l, r) == (l \in Arrs) = (r \in Arrs)
\* Every slot of the container holds a live element.
AllLive(id) ==
  \A i \in 1..length_[id] : heap[ptr_[id]].cells[i] # RAW
Equal(l, r) ==
  /\ live[l] /\ live[r] /\ SameType(l, r)
  /\ \E e \in OperatorEq(l, r) :
       last' = Call("==", l, r, 0, 0, IF e THEN "true" ELSE "false")
  /\ UNCHANGED <<live, length_, ptr_, d_, heap, events, constructs>>
NotEqual(l, r) ==
  /\ live[l] /\ live[r] /\ SameType(l, r)
  /\ \E e \in OperatorNe(l, r) :
       last' = Call("!=", l, r, 0, 0, IF e THEN "true" ELSE "false")
  /\ UNCHANGED <<live, length_, ptr_, d_, heap, events, constructs>>

\* -------------------------------------------------------- CollectionOf
Event(e, p, i, v) == [e |-> e, p |-> p, i |-> i, v |-> v]
\* CollectionOf(length, alloc): length_(length), d_(alloc), allocate; no
\* element is constructed.
CollectionOfCtor(id, length, alloc) ==
  /\ id \in Colls /\ ~live[id]
  /\ FreePtrs(heap) # {}
  /\ \E p \in AllocateResults(heap, length) :
       /\ heap' = IF p = NULL THEN heap
                  ELSE [HeapAfterAllocate(heap, alloc, length, p)
                          EXCEPT ![p].built = TRUE]
       /\ ptr_' = [ptr_ EXCEPT ![id] = p]
       /\ events' = <<Event("allocate", p, length, 0)>>
  /\ live' = [live EXCEPT ![id] = TRUE]
  /\ length_' = [length_ EXCEPT ![id] = length]
  /\ d_' = [d_ EXCEPT ![id] = alloc]
  /\ constructs' = <<>>
  /\ last' = Call("coll-ctor", id, id, length, 0, "ok")

\* construct(args...): for i in 0 .. length_ - 1, ::new (ptr_ + i) T(args...).
\* Constructor number k throws (k = length_: none does); the elements
\* constructed before it stay.
PlacementNewAll(cells, n, v, k) ==
  [i \in 1..Len(cells) |-> IF i <= n /\ i <= k THEN v ELSE cells[i]]
ConstructEvents(p, v, k) == [i \in 1..k |-> Event("construct", p, i - 1, v)]
Construct(id, v, k) ==
  /\ id \in Colls /\ live[id]
  /\ k <= length_[id]
  /\ Len(constructs) < MaxConstructs
  /\ heap' = IF ptr_[id] = NULL THEN heap
             ELSE [heap EXCEPT ![ptr_[id]].cells =
                                  PlacementNewAll(@, length_[id], v, k)]
  /\ events' = events \o ConstructEvents(ptr_[id], v, k)
  /\ constructs' = Append(constructs, IF k = length_[id] THEN "ok" ELSE "throw")
  /\ last' = Call("construct", id, id, 0, v, IF k = length_[id] THEN "ok" ELSE "throw")
  /\ UNCHANGED <<live, length_, ptr_, d_>>

\* CollectionOf::Deleter::operator(): alloc.deallocate(ptr, n), also for null.
CollectionDeleter(h, alloc, p, n) == Deallocate(h, alloc, p, n)
\* ptr[i].~T() for i < n: the slots of ptr that lie in its region hold no
\* element afterwards.
DestroyN(h, ptr, n) ==
  IF ptr = NULL THEN h
  ELSE [h EXCEPT ![ptr].cells = [i \in 1..Len(@) |-> IF i <= n THEN RAW ELSE @[i]]]
DestroyEvents(ptr, n) == [i \in 1..n |-> Event("destroy", ptr, i - 1, 0)]
\* ~CollectionOf(): for (i = 0; i < n; ++i) ptr[i].~T(); d_(ptr_, length_).
\* The loop names n and ptr, which are no members of the class (these are
\* length_ and ptr_): they are whatever the including code declares under
\* these names, so the model draws them from their types.
CollectionOfDtor(id) ==
  /\ id \in Colls /\ live[id]
  /\ \E n \in Lens, ptr \in {NULL} \cup {p \in Ptrs : heap[p].used} :
       /\ heap' = CollectionDeleter(DestroyN(heap, ptr, n), d_[id], ptr_[id], length_[id])
       /\ events' = events \o DestroyEvents(ptr, n)
                      \o <<Event("deallocate", ptr_[id], length_[id], 0)>>
  /\ live' = [live EXCEPT ![id] = FALSE]
  /\ length_' = [length_ EXCEPT ![id] = 0]
  /\ ptr_' = [ptr_ EXCEPT ![id] = NULL]
  /\ d_' = [d_ EXCEPT ![id] = DefaultAlloc]
  /\ last' = Call("coll-dtor", id, id, 0, 0, "ok")
  /\ UNCHANGED constructs

\* ------------------------------------------------------- specifications
\* ArrayOf objects made by every constructor form, and destroyed.
NextConstruct ==
  \/ \E id \in Arrs : CtorLength(id)
  \/ \E id \in Arrs : CtorLengthValueAlloc(id)
  \/ \E id \in Arrs : CtorLengthAlloc(id)
  \/ \E id \in Arrs : CtorLengthValue(id)
  \/ \E id \in Arrs : ArrayOfDtor(id)
SpecConstruct == Init /\ [][NextConstruct]_vars

\* ArrayOf objects with allocators of their own, moved and destroyed.
NextMove ==
  \/ \E id \in Arrs : CtorLengthValueAlloc(id)
  \/ \E id \in Arrs : ArrayOfDtor(id)
  \/ \E dst \in Arrs, src \in Arrs : MoveCtor(dst, src)
  \/ \E dst \in Arrs, src \in Arrs : MoveAssign(dst, src)
SpecMove == Init /\ [][NextMove]_vars

\* ArrayOf objects over the default allocator and the operations on their
\* elements.
NextElements ==
  \/ \E id \in Arrs : CtorLengthValue(id)
  \/ \E id \in Arrs : ArrayOfDtor(id)
  \/ \E dst \in Arrs, src \in Arrs : MoveCtor(dst, src)
  \/ \E dst \in Arrs, src \in Arrs : MoveAssign(dst, src)
  \/ \E id \in Arrs, n \in Lens, v \in Vals : Assign(id, n, v)
  \/ \E id \in Arrs, v \in Vals, k \in Lens : Fill(id, v, k)
  \/ \E id \in Arrs, other \in Arrs : Swap(id, other)
  \/ \E l \in Arrs, r \in Arrs : Equal(l, r)
  \/ \E l \in Arrs, r \in Arrs : NotEqual(l, r)
SpecElements == Init /\ [][NextElements]_vars

\* The life of a CollectionOf object.
NextCollection ==
  \/ \E id \in Colls, length \in Lens, alloc \in Allocs : CollectionOfCtor(id, length, alloc)
  \/ \E id \in Colls, v \in Vals, k \in Lens : Construct(id, v, k)
  \/ \E id \in Colls : CollectionOfDtor(id)
SpecCollection == Init /\ [][NextCollection]_vars

\* Containers of both templates, live or moved from, and checked access to
\* them.
NextAccess ==
  \/ \E id \in Arrs : CtorLength(id)
  \/ \E id \in Arrs : ArrayOfDtor(id)
  \/ \E dst \in Arrs, src \in Arrs : MoveCtor(dst, src)
  \/ \E dst \in Arrs, src \in Arrs : MoveAssign(dst, src)
  \/ \E id \in Colls, length \in Lens, alloc \in Allocs : CollectionOfCtor(id, length, alloc)
  \/ \E id \in Ids, n \in Lens : At(id, n)
SpecAccess == Init /\ [][NextAccess]_vars

\* Every operation of both templates.
Next == NextConstruct \/ NextMove \/ NextElements \/ NextCollection \/ NextAccess
Spec == Init /\ [][Next]_vars

\* ---------------------------------------------------------------- claims
CtorForms ==
  {"ctor(length)", "ctor(length,v,alloc)", "ctor(length,alloc)", "ctor(length,v)"}
Cell(h, p, i) == h[p].cells[i + 1]

\* C1: for two containers of the same type whose slots all hold elements,
\* a == b is true if and only if their lengths are equal and a[i] == b[i] for
\* every i below the length.
C1_EqualIffSameLengthAndElements ==
  (last.op = "==" /\ AllLive(last.id) /\ AllLive(last.other)) =>
    ((last.res = "true") <=>
       /\ length_[last.id] = length_[last.other]
       /\ \A i \in 0..(length_[last.id] - 1) :
            Cell(heap, ptr_[last.id], i) = Cell(heap, ptr_[last.other], i))

\* C2: at(n) returns the slot operator[](n) names when n < length(); when
\* n >= length() it signals OutOfRange; the call changes neither the
\* container's length, nor its storage, nor any element.
C2_AtChecked ==
  [][last'.op = "at" =>
       /\ (last'.n < length_[last'.id] =>
             last'.res = "ok" /\ last'.slot = Subscript(last'.id, last'.n))
       /\ (last'.n >= length_[last'.id] =>
             last'.res = "OutOfRange" /\ last'.slot = <<>>)
       /\ UNCHANGED <<live, length_, ptr_, d_, heap>>]_vars
\* at(length()) on a CollectionOf of MaxLen elements signalled OutOfRange.
C2_Witness ==
  /\ last.op = "at" /\ last.id \in Colls /\ last.res = "OutOfRange"
  /\ last.n = length_[last.id] /\ length_[last.id] = MaxLen

\* C3: every constructor form that completes gives an array whose length()
\* is the requested length, over that many allocated slots, each holding the
\* fill value (the default value of T when none was given).
C3_CtorLengthAndValues ==
  (last.op \in CtorForms /\ last.res = "ok") =>
    /\ length_[last.id] = last.n
    /\ (ptr_[last.id] # NULL => heap[ptr_[last.id]].n = last.n)
    /\ (ptr_[last.id] = NULL => last.n = 0)
    /\ \A i \in 0..(length_[last.id] - 1) : Cell(heap, ptr_[last.id], i) = last.v

\* C4: a move gives the destination the source's length and storage and
\* leaves the elements alone; after move-construction the source has length
\* 0 and no storage, after move-assignment it has what the destination had;
\* and no region is ever held by two live arrays, nor held after its release.
NoSharedStorage ==
  \A x \in Arrs : (live[x] /\ ptr_[x] # NULL) =>
    /\ heap[ptr_[x]].used /\ heap[ptr_[x]].frees = <<>>
    /\ \A y \in Arrs \ {x} : live[y] => ptr_[y] # ptr_[x]
C4_MoveTransfersOwnership ==
  [][/\ (last'.op = "move-ctor" =>
           /\ length_'[last'.id] = length_[last'.other]
           /\ ptr_'[last'.id] = ptr_[last'.other]
           /\ length_'[last'.other] = 0
           /\ ptr_'[last'.other] = NULL
           /\ heap' = heap)
     /\ (last'.op = "move-assign" =>
           /\ length_'[last'.id] = length_[last'.other]
           /\ ptr_'[last'.id] = ptr_[last'.other]
           /\ length_'[last'.other] = length_[last'.id]
           /\ ptr_'[last'.other] = ptr_[last'.id]
           /\ heap' = heap)
     /\ NoSharedStorage']_vars
\* A move-assignment between two arrays that both hold storage.
C4_Witness ==
  /\ last.op = "move-assign" /\ last.id # last.other
  /\ ptr_[last.id] # NULL /\ ptr_[last.other] # NULL
  /\ length_[last.id] # length_[last.other]

\* C5: a CollectionOf that was created with length n, constructed once and
\* destroyed has produced: allocate(n); n constructions, slots 0 .. n-1, with
\* the same arguments; n destructions, slots 0 .. n-1; deallocate of the same
\* pointer with count n.
LifecycleEvents(p, n, v) ==
  <<Event("allocate", p, n, 0)>>
    \o [i \in 1..n |-> Event("construct", p, i - 1, v)]
    \o [i \in 1..n |-> Event("destroy", p, i - 1, 0)]
    \o <<Event("deallocate", p, n, 0)>>
C5_LifecycleEvents ==
  (last.op = "coll-dtor" /\ constructs = <<"ok">>) =>
    \E v \in Vals : events = LifecycleEvents(events[1].p, events[1].i, v)

\* C6: swap between two arrays of equal length exchanges the elements
\* position by position, each array keeping its storage, its length and its
\* allocator; swapping again restores both.
C6_SwapExchangesValues ==
  [][(last'.op = "swap" /\ length_[last'.id] = length_[last'.other]) =>
       /\ \A i \in 0..(length_[last'.id] - 1) :
            /\ Cell(heap', ptr_[last'.id], i) = Cell(heap, ptr_[last'.other], i)
            /\ Cell(heap', ptr_[last'.other], i) = Cell(heap, ptr_[last'.id], i)
       /\ UNCHANGED <<live, length_, ptr_, d_>>
       /\ SwapRanges(heap', ptr_[last'.id], length_[last'.id], ptr_[last'.other]) = heap]_vars
\* A swap of two arrays of MaxLen elements that differ, the first one holding
\* two different values.
C6_Witness ==
  /\ last.op = "swap"
  /\ length_[last.id] = MaxLen /\ length_[last.other] = MaxLen
  /\ AllLive(last.id) /\ AllLive(last.other)
  /\ Cell(heap, ptr_[last.id], 0) # Cell(heap, ptr_[last.id], 1)
  /\ Cell(heap, ptr_[last.id], 0) # Cell(heap, ptr_[last.other], 0)

\* C7: after a fill(v) that completes, every slot holds v, begin()..end()
\* yields length() copies of v, the array compares equal (either way round)
\* to a freshly constructed array of the same length filled with v, and
\* length() and the storage pointer are what they were.
FreshArrayOf(n, v) ==
  [Region(DefaultAlloc, n) EXCEPT !.cells = UninitializedFillN(@, n, v, n)]
WithFresh(h, n, v) ==
  [q \in Ptrs \cup {MaxRegions + 1} |-> IF q \in Ptrs THEN h[q] ELSE FreshArrayOf(n, v)]
C7_FillGivesCopies ==
  [][(last'.op = "fill" /\ last'.res = "ok") =>
       LET id == last'.id
           n == length_'[id]
           v == last'.v
       IN /\ \A i \in 0..(n - 1) : Cell(heap', ptr_'[id], i) = v
          /\ Iterate(heap', ptr_'[id], n) = [i \in 1..n |-> v]
          /\ StdEqual(WithFresh(heap', n, v), ptr_'[id], n, MaxRegions + 1, 0) = {TRUE}
          /\ StdEqual(WithFresh(heap', n, v), MaxRegions + 1, n, ptr_'[id], 0) = {TRUE}
          /\ length_'[id] = length_[id]
          /\ ptr_'[id] = ptr_[id]]_vars
\* A completed fill of an array of MaxLen elements with the non-default value.
C7_Witness ==
  /\ last.op = "fill" /\ last.res = "ok"
  /\ length_[last.id] = MaxLen /\ last.v # DefaultValue

\* C8: when the copy of the fill value throws during construction, the
\* elements already constructed are destroyed and the storage allocated is
\* deallocated before the error reaches the caller: no region is left that
\* belongs to no container.
C8_CtorThrowReleasesStorage ==
  (last.op \in CtorForms /\ last.res = "throw") =>
    \A p \in Ptrs : heap[p].used => heap[p].built

\* C9: every slot below length() of a live ArrayOf holds a live element.
C9_AllSlotsLive ==
  \A id \in Arrs : live[id] => AllLive(id)

\* C10: once every container is destroyed, every region a constructor
\* obtained has been released by one deallocate call on the allocator that
\* allocated it, with the count it was allocated with.
C10_ReleasedBySameAllocator ==
  (\A id \in Ids : ~live[id]) =>
    \A p \in Ptrs : ~(heap[p].used /\ heap[p].built)
====
